---- MODULE Spec2Model ----
(***************************************************************************)
(* Wiki Quiz client: the three stateful React components.                  *)
(*                                                                         *)
(*   TakeQuiz      (components/TakeQuiz.jsx)      answers / submitted /    *)
(*                                                score state machine      *)
(*   PastQuizzes   (components/PastQuizzes.jsx)   history list and the     *)
(*                                                detail fetch             *)
(*   GenerateQuiz  (components/GenerateQuiz.jsx)  url preview and quiz     *)
(*                                                generation               *)
(*                                                                         *)
(* Every async handler is split at its awaits: the call up to the first    *)
(* await is one action, and each continuation (the fetch settling, the     *)
(* body parse settling) is one action run to the end of the handler.       *)
(* Handlers are modelled as the functions they are: the specifications     *)
(* SpecTake, SpecPast and SpecGen call them whenever the component is      *)
(* mounted, whether or not a button that leads to them is enabled.         *)
(* Spec is the whole App (App.jsx, QuizDisplay.jsx, QuizModal.jsx): one    *)
(* tab's component rendered at a time, and the handlers called only        *)
(* through the elements that are rendered and enabled.  FairSpec is Spec   *)
(* with every response of the network arriving.                            *)
(***************************************************************************)
EXTENDS Integers, Sequences, FiniteSets, Bags, TLC

VARIABLES
    \* TakeQuiz
    questions,      \* the questions prop: a sequence of [options, answer]
    answers,        \* useState({}): question index (0-based) -> option
    submitted,      \* useState(false)
    score,          \* useState(0)
    \* PastQuizzes
    quizzes,        \* useState([]): the listed quiz summaries, by id
    loading,        \* useState(true)
    error,          \* useState(null)
    selectedQuiz,   \* useState(null)
    modalLoading,   \* useState(false)
    \* its async handlers suspended at an await: [fn, seq, id, pc]
    inflight,
    nextSeq,        \* how many requests have been issued
    \* the handleDetails calls whose body has been parsed, in the order the
    \* parses settled: [seq, id]
    resolved,
    \* GenerateQuiz
    url,            \* useState(''): a sequence of UrlTokens
    preview,        \* useState(null)
    quizData,       \* useState(null)
    genLoading,     \* useState(false), the component's loading
    genError,       \* useState(null), the component's error
    previewLoading, \* useState(false)
    \* its async handlers suspended at an await: a bag of [fn, pc]
    genInflight,
    \* App and QuizDisplay
    activeTab,      \* App: useState('generate')
    showTakeQuiz,   \* the rendered QuizDisplay: useState(false)
    \* the async handlers of components that have been unmounted, still
    \* suspended at an await: a bag of [fn, pc]
    orphans,
    \* the handler (or continuation of a handler) that ran last, with what
    \* the network handed it; it makes a handler that returns early visible
    lastCall

takeVars == <<questions, answers, submitted, score>>
pastVars == <<quizzes, loading, error, selectedQuiz, modalLoading>>
netVars == <<inflight, nextSeq, resolved>>
genVars ==
    <<url, preview, quizData, genLoading, genError, previewLoading, genInflight>>
appVars == <<activeTab, showTakeQuiz, orphans>>
vars == <<takeVars, pastVars, netVars, genVars, appVars, lastCall>>

----------------------------------------------------------------------------
(* Bounds *)

MaxQuestions == 5

\* Requests issued in one run of a component.
MaxCalls == 3

\* Tokens in the text of the url input.
MaxUrlLen == 2

----------------------------------------------------------------------------
(* Values *)

\* What lastCall holds: the function, the step of it that ran, the detail
\* message of the failure body it read ("null" when there is none), and,
\* for a TakeQuiz handler, the state it was called in.
Call(fn, step, detail) ==
    [fn |-> fn, step |-> step, detail |-> detail, from |-> "-"]

TakeCall(fn) ==
    [fn |-> fn, step |-> "call", detail |-> "null",
     from |-> IF submitted THEN "Submitted" ELSE "InProgress"]

\* The two questions quizzes are built from.  "a" is the answer of the
\* first and not an option of the second, so a selection of "a" on the
\* second is a string that is none of the question's options.
QuestionPool ==
    { [options |-> <<"a", "b">>, answer |-> "a"],
      [options |-> <<"b", "c">>, answer |-> "b"] }

\* The strings handleSelect is handed.
Selections == {"a", "b"}

QuestionLists == UNION { [1..n -> QuestionPool] : n \in 0..MaxQuestions }

\* useState({}): the object with no keys.
EmptyAnswers == [i \in {} |-> "a"]

----------------------------------------------------------------------------
(* JavaScript numbers.  (x / y) * 100 is kept as the exact fraction        *)
(* 100x / y; for every y below 400 the double the expression evaluates to  *)
(* compares with 100, 80, 60, 40 and 0 exactly as the fraction does.       *)
(* x / 0 is Infinity for x > 0 and NaN for x = 0, as in IEEE 754.          *)

Percent(x, y) ==
    IF y # 0 THEN [kind |-> "finite", num |-> 100 * x, den |-> y]
    ELSE IF x = 0 THEN [kind |-> "NaN", num |-> 0, den |-> 0]
    ELSE [kind |-> "Infinity", num |-> 0, den |-> 0]

\* p === k
NumEq(p, k) == p.kind = "finite" /\ p.num = k * p.den

\* p >= k: false for NaN whatever k is
NumGeq(p, k) ==
    \/ p.kind = "Infinity"
    \/ p.kind = "finite" /\ p.num >= k * p.den

----------------------------------------------------------------------------
(* TakeQuiz *)

\* questions.length
totalQuestions == Len(questions)

\* Object.keys(answers).length
answeredCount == Cardinality(DOMAIN answers)

\* (answeredCount / totalQuestions) * 100
progressPercent == Percent(answeredCount, totalQuestions)

\* Mutant: an unanswered index counts as a match.
IsCorrectAt_unanswered(qs, ans, i) ==
    i \notin DOMAIN ans \/ ans[i] = qs[i + 1].answer

\* answers[i] === q.answer, for q = questions[i]; a missing key reads as
\* undefined, which is equal to no string
IsCorrectAt(qs, ans, i) == i \in DOMAIN ans /\ ans[i] = qs[i + 1].answer

\* the forEach of handleSubmit: the number of matching indices
RECURSIVE CountCorrect(_, _, _)
CountCorrect(qs, ans, n) ==
    IF n = 0 THEN 0
    ELSE CountCorrect(qs, ans, n - 1)
         + (IF IsCorrectAt(qs, ans, n - 1) THEN 1 ELSE 0)

\* Mutant: the early return on submitted is missing.
handleSelect_unguarded(qIndex, option) ==
    /\ answers' = [i \in DOMAIN answers \cup {qIndex} |->
                       IF i = qIndex THEN option ELSE answers[i]]
    /\ lastCall' = TakeCall("handleSelect")
    /\ UNCHANGED <<questions, submitted, score, pastVars, netVars, genVars, appVars>>

handleSelect(qIndex, option) ==
    /\ IF submitted
       THEN UNCHANGED answers
       ELSE answers' = [i \in DOMAIN answers \cup {qIndex} |->
                           IF i = qIndex THEN option ELSE answers[i]]
    /\ lastCall' = TakeCall("handleSelect")
    /\ UNCHANGED <<questions, submitted, score, pastVars, netVars, genVars, appVars>>

handleSubmit ==
    /\ score' = CountCorrect(questions, answers, Len(questions))
    /\ submitted' = TRUE
    /\ lastCall' = TakeCall("handleSubmit")
    /\ UNCHANGED <<questions, answers, pastVars, netVars, genVars, appVars>>

\* Mutant: the score is not reset.
handleRetry_keepsScore ==
    /\ answers' = EmptyAnswers
    /\ submitted' = FALSE
    /\ lastCall' = TakeCall("handleRetry")
    /\ UNCHANGED <<questions, score, pastVars, netVars, genVars, appVars>>

handleRetry ==
    /\ answers' = EmptyAnswers
    /\ submitted' = FALSE
    /\ score' = 0
    /\ lastCall' = TakeCall("handleRetry")
    /\ UNCHANGED <<questions, pastVars, netVars, genVars, appVars>>

\* Mutant: the 60 threshold is exclusive.
getScoreMessage_strict60 ==
    LET pct == Percent(score, totalQuestions) IN
    IF NumEq(pct, 100) THEN "top"
    ELSE IF NumGeq(pct, 80) THEN "high"
    ELSE IF NumGeq(pct, 60) /\ ~NumEq(pct, 60) THEN "medium"
    ELSE IF NumGeq(pct, 40) THEN "low"
    ELSE "lowest"

\* The feedback message, named by its band.
getScoreMessage ==
    LET pct == Percent(score, totalQuestions) IN
    IF NumEq(pct, 100) THEN "top"
    ELSE IF NumGeq(pct, 80) THEN "high"
    ELSE IF NumGeq(pct, 60) THEN "medium"
    ELSE IF NumGeq(pct, 40) THEN "low"
    ELSE "lowest"

\* Mutant: the two markings of a submitted quiz are independent ifs, and
\* the chosen option is marked wrong whether or not it is the answer.
className_independent(qIndex, opt) ==
    LET q == questions[qIndex + 1]
        isUserAnswer == qIndex \in DOMAIN answers /\ answers[qIndex] = opt
    IN  IF submitted
        THEN (IF opt = q.answer THEN {"correct-answer"} ELSE {})
             \cup (IF isUserAnswer THEN {"wrong-answer"} ELSE {})
        ELSE IF isUserAnswer THEN {"selected"}
        ELSE {}

\* The classes the option opt of question qIndex is rendered with, besides
\* 'take-quiz-option'.  userAnswer is answers[qIndex], undefined (equal to
\* no option) when there is no entry.
className(qIndex, opt) ==
    LET q == questions[qIndex + 1]
        isUserAnswer == qIndex \in DOMAIN answers /\ answers[qIndex] = opt
        isCorrect == IsCorrectAt(questions, answers, qIndex)
    IN  IF submitted
        THEN IF opt = q.answer THEN {"correct-answer"}
             ELSE IF isUserAnswer /\ ~isCorrect THEN {"wrong-answer"}
             ELSE {}
        ELSE IF isUserAnswer THEN {"selected"}
        ELSE {}

\* No TakeQuiz is rendered.
TakeAbsent ==
    /\ questions = <<>>
    /\ answers = EmptyAnswers
    /\ submitted = FALSE
    /\ score = 0

\* No PastQuizzes is rendered.
PastAbsent ==
    /\ quizzes = <<>>
    /\ loading = FALSE
    /\ error = "null"
    /\ selectedQuiz = "null"
    /\ modalLoading = FALSE

\* No GenerateQuiz is rendered.
GenAbsent ==
    /\ url = <<>>
    /\ preview = "null"
    /\ quizData = "null"
    /\ genLoading = FALSE
    /\ genError = "null"
    /\ previewLoading = FALSE
    /\ genInflight = EmptyBag

\* No request has been issued.
NetIdle ==
    /\ inflight = {}
    /\ nextSeq = 0
    /\ resolved = <<>>

\* The rendered QuizDisplay is unmounted (or there was none): its state
\* and that of the TakeQuiz it rendered are gone.
QuizDisplayUnmounted ==
    /\ showTakeQuiz' = FALSE
    /\ questions' = <<>>
    /\ answers' = EmptyAnswers
    /\ submitted' = FALSE
    /\ score' = 0

\* The rendered QuizDisplay is handed another quiz as its data prop: the
\* instance and its state stay, and so does the TakeQuiz it renders, whose
\* questions prop becomes the new quiz's list.
QuizDisplayRerendered(questionList) ==
    /\ IF showTakeQuiz
       THEN questions' = questionList
       ELSE UNCHANGED questions
    /\ UNCHANGED <<answers, submitted, score, showTakeQuiz>>

\* A TakeQuiz just mounted on a question list.
InitTake ==
    /\ questions \in QuestionLists
    /\ answers = EmptyAnswers
    /\ submitted = FALSE
    /\ score = 0
    /\ PastAbsent
    /\ GenAbsent
    /\ NetIdle
    /\ activeTab = "generate"
    /\ showTakeQuiz = TRUE
    /\ orphans = EmptyBag
    /\ lastCall = Call("TakeQuiz", "mount", "null")

Select ==
    \E qIndex \in 0..(Len(questions) - 1), option \in Selections :
        handleSelect(qIndex, option)

NextTake == Select \/ handleSubmit \/ handleRetry

SpecTake == InitTake /\ [][NextTake]_vars

----------------------------------------------------------------------------
(* Properties of TakeQuiz, checked under SpecTake *)

\* The indices whose entry in the answer map is the question's answer.
CorrectIndices ==
    { i \in 0..(Len(questions) - 1) :
        i \in DOMAIN answers /\ answers[i] = questions[i + 1].answer }

\* C1: right after handleSubmit, score is the number of indices i whose
\* answers[i] is the string questions[i].answer, so it is never more than
\* the number of indices that have an entry.
C1_SubmitCountsMatches ==
    lastCall.fn = "handleSubmit" =>
        /\ submitted
        /\ score = Cardinality(CorrectIndices)
        /\ score <= Cardinality(DOMAIN answers)

\* handleSubmit has scored a map with a matching, a non-matching and a
\* missing entry.
C1_Witness ==
    /\ lastCall.fn = "handleSubmit"
    /\ score > 0
    /\ \E i \in 0..(Len(questions) - 1) : i \notin DOMAIN answers
    /\ \E i \in DOMAIN answers : answers[i] # questions[i + 1].answer

\* C2: handleRetry called in Submitted leaves score 0, no entry in the
\* answer map and submitted false.
C2_RetryResets ==
    (lastCall.fn = "handleRetry" /\ lastCall.from = "Submitted") =>
        /\ score = 0
        /\ answeredCount = 0
        /\ answers = EmptyAnswers
        /\ ~submitted

\* handleRetry has run on a submitted quiz.
C2_Witness ==
    /\ lastCall.fn = "handleRetry"
    /\ lastCall.from = "Submitted"
    /\ score = 0
    /\ ~submitted

\* C3: a handleSelect called while submitted changes neither the answer
\* map nor the score nor the submitted flag.
C3_SelectFrozenWhenSubmitted ==
    [][(submitted /\ lastCall'.fn = "handleSelect")
          => UNCHANGED <<answers, score, submitted, questions>>]_vars

\* handleSelect has been called on a submitted quiz.
C3_Witness ==
    /\ lastCall.fn = "handleSelect"
    /\ lastCall.from = "Submitted"
    /\ submitted
    /\ answers # EmptyAnswers

\* C4 as claimed: progressPercent is 0 on an empty question list and 100
\* when every index has an entry.
C4_ProgressZeroAndFull ==
    /\ totalQuestions = 0 => NumEq(progressPercent, 0)
    /\ (totalQuestions > 0 /\ DOMAIN answers = 0..(totalQuestions - 1))
          => NumEq(progressPercent, 100)

\* The band of s correct answers out of n, from the thresholds 100, 80, 60
\* and 40 per cent written as the fractions 1, 4/5, 3/5 and 2/5.
Band(s, n) ==
    IF s = n THEN "top"
    ELSE IF 5 * s >= 4 * n THEN "high"
    ELSE IF 5 * s >= 3 * n THEN "medium"
    ELSE IF 5 * s >= 2 * n THEN "low"
    ELSE "lowest"

\* C5: on a submitted quiz with at least one question the feedback band is
\* the one the thresholds give for score / questionCount; and 3 matching
\* entries out of 5 questions give score 3, 60 per cent and the medium band.
C5_FeedbackBands ==
    (submitted /\ totalQuestions > 0) =>
        /\ score \in 0..totalQuestions
        /\ getScoreMessage = Band(score, totalQuestions)
        /\ (totalQuestions = 5 /\ Cardinality(CorrectIndices) = 3) =>
              /\ score = 3
              /\ NumEq(Percent(score, totalQuestions), 60)
              /\ getScoreMessage = "medium"

\* Five questions answered, three of them correctly, and submitted.
C5_Witness ==
    /\ submitted
    /\ totalQuestions = 5
    /\ answeredCount = 5
    /\ score = 3
    /\ getScoreMessage = "medium"

\* C20 as claimed: a handleRetry called while not submitted leaves the
\* answer map, the score and the submitted flag as they were.
C20_RetryInProgressNoOp ==
    [][(~submitted /\ lastCall'.fn = "handleRetry")
          => UNCHANGED <<answers, score, submitted>>]_vars

\* The options of question qIndex.
OptionsOf(qIndex) ==
    { questions[qIndex + 1].options[k] :
        k \in 1..Len(questions[qIndex + 1].options) }

\* C25: every option is rendered with at most one marking: on a submitted
\* quiz correct-answer if it is the question's answer, wrong-answer if it
\* is the user's selection and the selection is not the answer, none
\* otherwise; before, selected if it is the selection, none otherwise.
C25_OneClassPerOption ==
    \A qIndex \in 0..(Len(questions) - 1) : \A opt \in OptionsOf(qIndex) :
        LET cls == className(qIndex, opt)
            answer == questions[qIndex + 1].answer
            chosen == qIndex \in DOMAIN answers /\ answers[qIndex] = opt
        IN  /\ Cardinality(cls) <= 1
            /\ submitted =>
                  /\ "correct-answer" \in cls <=> opt = answer
                  /\ "wrong-answer" \in cls <=> (chosen /\ opt # answer)
                  /\ "selected" \notin cls
            /\ ~submitted =>
                  /\ "selected" \in cls <=> chosen
                  /\ cls \cap {"correct-answer", "wrong-answer"} = {}

\* A submitted quiz shows a question with the chosen option marked wrong
\* and another marked correct, and a question whose chosen option is the
\* answer.
C25_Witness ==
    /\ submitted
    /\ \E qIndex \in 0..(Len(questions) - 1) :
          \E opt, other \in OptionsOf(qIndex) :
              /\ className(qIndex, opt) = {"wrong-answer"}
              /\ className(qIndex, other) = {"correct-answer"}
    /\ \E qIndex \in DOMAIN answers :
          /\ qIndex < Len(questions)
          /\ answers[qIndex] = questions[qIndex + 1].answer
          /\ className(qIndex, answers[qIndex]) = {"correct-answer"}

----------------------------------------------------------------------------
(* The quiz service, as PastQuizzes sees it *)

\* The ids of the stored quizzes.
QuizIds == {1, 2}

\* The body of a successful GET /api/quiz/{id}.
QuizById(id) == IF id = 1 THEN "quiz1" ELSE "quiz2"

\* data.quiz, the question list of a quiz.
QuizQuestions(quiz) ==
    LET q1 == [options |-> <<"a", "b">>, answer |-> "a"]
        q2 == [options |-> <<"b", "c">>, answer |-> "b"]
    IN  IF quiz = "quiz1" THEN <<q1, q2>> ELSE <<q2>>

\* The bodies of a successful GET /api/quiz/history: quiz ids in the
\* server's order.
HistoryLists == { <<>>, <<1>>, <<2, 1>> }

\* The detail field of a failure body; "null" when the body has none.
Details == {"null", "not found"}

\* err.message of the TypeError a rejected fetch throws.
NetworkErrorMessage == "Failed to fetch"

\* err.message of the SyntaxError a rejected res.json() throws.
JsonErrorMessage == "Unexpected token < in JSON at position 0"

\* A handler suspended at await fetch(...).
Pending(fn, id) == [fn |-> fn, seq |-> nextSeq, id |-> id, pc |-> "fetch"]

\* The handler c moved on to await res.json().
Parsing(c) == [c EXCEPT !.pc = "json"]

----------------------------------------------------------------------------
(* PastQuizzes *)

\* fetchHistory, once the fetch has settled: rejected (network), fulfilled
\* with a non-ok status, or fulfilled ok, and then it awaits res.json().
fetchHistory_fetched(c, outcome) ==
    /\ c.fn = "fetchHistory" /\ c.pc = "fetch"
    /\ CASE outcome = "rejected" ->
              /\ error' = NetworkErrorMessage
              /\ loading' = FALSE
              /\ inflight' = inflight \ {c}
         [] outcome = "http" ->
              /\ error' = "Failed to fetch history"
              /\ loading' = FALSE
              /\ inflight' = inflight \ {c}
         [] outcome = "ok" ->
              /\ inflight' = (inflight \ {c}) \cup {Parsing(c)}
              /\ UNCHANGED <<error, loading>>
    /\ lastCall' = Call("fetchHistory", outcome, "null")
    /\ UNCHANGED <<quizzes, selectedQuiz, modalLoading, nextSeq, resolved,
                   takeVars, genVars, appVars>>

\* Mutant: no finally block; a rejected res.json() leaves loading set.
fetchHistory_parsed_noFinally(c, data, readable) ==
    /\ c.fn = "fetchHistory" /\ c.pc = "json"
    /\ IF readable
       THEN quizzes' = data /\ loading' = FALSE /\ UNCHANGED error
       ELSE error' = JsonErrorMessage /\ UNCHANGED <<quizzes, loading>>
    /\ inflight' = inflight \ {c}
    /\ lastCall' = Call("fetchHistory",
                        IF readable THEN "parsed" ELSE "unreadable", "null")
    /\ UNCHANGED <<selectedQuiz, modalLoading, nextSeq, resolved, takeVars, genVars, appVars>>

\* fetchHistory, once res.json() has settled: with the list, or rejected.
fetchHistory_parsed(c, data, readable) ==
    /\ c.fn = "fetchHistory" /\ c.pc = "json"
    /\ IF readable
       THEN quizzes' = data /\ UNCHANGED error
       ELSE error' = JsonErrorMessage /\ UNCHANGED quizzes
    /\ loading' = FALSE
    /\ inflight' = inflight \ {c}
    /\ lastCall' = Call("fetchHistory",
                        IF readable THEN "parsed" ELSE "unreadable", "null")
    /\ UNCHANGED <<selectedQuiz, modalLoading, nextSeq, resolved, takeVars, genVars, appVars>>

\* Mutant: the error is cleared before the fetch, as fetchHistory does.
handleDetails_clearsError(id) ==
    /\ modalLoading' = TRUE
    /\ error' = "null"
    /\ inflight' = inflight \cup {Pending("handleDetails", id)}
    /\ nextSeq' = nextSeq + 1
    /\ lastCall' = Call("handleDetails", "call", "null")
    /\ UNCHANGED <<quizzes, loading, selectedQuiz, resolved, takeVars, genVars, appVars>>

\* handleDetails up to await fetch(`${API_BASE}/${id}`).
handleDetails(id) ==
    /\ modalLoading' = TRUE
    /\ inflight' = inflight \cup {Pending("handleDetails", id)}
    /\ nextSeq' = nextSeq + 1
    /\ lastCall' = Call("handleDetails", "call", "null")
    /\ UNCHANGED <<quizzes, loading, error, selectedQuiz, resolved, takeVars, genVars, appVars>>

\* Mutant: a failure closes the detail view.
handleDetails_fetched_clears(c, outcome, detail) ==
    /\ c.fn = "handleDetails" /\ c.pc = "fetch"
    /\ CASE outcome = "rejected" ->
              /\ error' = NetworkErrorMessage
              /\ modalLoading' = FALSE
              /\ selectedQuiz' = "null"
              /\ inflight' = inflight \ {c}
         [] outcome = "http" ->
              /\ error' = "Failed to fetch quiz details"
              /\ modalLoading' = FALSE
              /\ selectedQuiz' = "null"
              /\ inflight' = inflight \ {c}
         [] outcome = "ok" ->
              /\ inflight' = (inflight \ {c}) \cup {Parsing(c)}
              /\ UNCHANGED <<error, modalLoading, selectedQuiz>>
    /\ lastCall' = Call("handleDetails", outcome, detail)
    /\ UNCHANGED <<quizzes, loading, nextSeq, resolved, takeVars, genVars, appVars>>

\* handleDetails, once the fetch has settled; detail is the detail field of
\* a non-ok response's body, which the handler never reads.
handleDetails_fetched(c, outcome, detail) ==
    /\ c.fn = "handleDetails" /\ c.pc = "fetch"
    /\ CASE outcome = "rejected" ->
              /\ error' = NetworkErrorMessage
              /\ modalLoading' = FALSE
              /\ inflight' = inflight \ {c}
         [] outcome = "http" ->
              /\ error' = "Failed to fetch quiz details"
              /\ modalLoading' = FALSE
              /\ inflight' = inflight \ {c}
         [] outcome = "ok" ->
              /\ inflight' = (inflight \ {c}) \cup {Parsing(c)}
              /\ UNCHANGED <<error, modalLoading>>
    /\ lastCall' = Call("handleDetails", outcome, detail)
    /\ UNCHANGED <<quizzes, loading, selectedQuiz, nextSeq, resolved, takeVars, genVars, appVars>>

\* Mutant: a request token; only the call issued last is applied.
handleDetails_parsed_fenced(c, readable) ==
    /\ c.fn = "handleDetails" /\ c.pc = "json"
    /\ IF readable
       THEN /\ IF c.seq = nextSeq - 1
               THEN /\ selectedQuiz' = QuizById(c.id)
                    /\ QuizDisplayRerendered(QuizQuestions(QuizById(c.id)))
               ELSE UNCHANGED <<selectedQuiz, takeVars, showTakeQuiz>>
            /\ resolved' = Append(resolved, [seq |-> c.seq, id |-> c.id])
            /\ UNCHANGED error
       ELSE /\ error' = JsonErrorMessage
            /\ UNCHANGED <<selectedQuiz, resolved, takeVars, showTakeQuiz>>
    /\ modalLoading' = FALSE
    /\ inflight' = inflight \ {c}
    /\ lastCall' = Call("handleDetails",
                        IF readable THEN "parsed" ELSE "unreadable", "null")
    /\ UNCHANGED <<quizzes, loading, nextSeq, genVars, activeTab, orphans>>

\* handleDetails, once res.json() has settled: with the quiz, or rejected.
handleDetails_parsed(c, readable) ==
    /\ c.fn = "handleDetails" /\ c.pc = "json"
    /\ IF readable
       THEN /\ selectedQuiz' = QuizById(c.id)
            /\ QuizDisplayRerendered(QuizQuestions(QuizById(c.id)))
            /\ resolved' = Append(resolved, [seq |-> c.seq, id |-> c.id])
            /\ UNCHANGED error
       ELSE /\ error' = JsonErrorMessage
            /\ UNCHANGED <<selectedQuiz, resolved, takeVars, showTakeQuiz>>
    /\ modalLoading' = FALSE
    /\ inflight' = inflight \ {c}
    /\ lastCall' = Call("handleDetails",
                        IF readable THEN "parsed" ELSE "unreadable", "null")
    /\ UNCHANGED <<quizzes, loading, nextSeq, genVars, activeTab, orphans>>

\* The modal's onClose; there is a modal only while selectedQuiz is set.
\* The modal, and the QuizDisplay in it, are unmounted.
onClose ==
    /\ selectedQuiz # "null"
    /\ selectedQuiz' = "null"
    /\ QuizDisplayUnmounted
    /\ lastCall' = Call("onClose", "call", "null")
    /\ UNCHANGED <<quizzes, loading, error, modalLoading, netVars, genVars,
                   activeTab, orphans>>

\* PastQuizzes mounted and its effect run: fetchHistory is at its await.
InitPast ==
    /\ TakeAbsent
    /\ GenAbsent
    /\ quizzes = <<>>
    /\ loading = TRUE
    /\ error = "null"
    /\ selectedQuiz = "null"
    /\ modalLoading = FALSE
    /\ inflight = {[fn |-> "fetchHistory", seq |-> 0, id |-> 0, pc |-> "fetch"]}
    /\ nextSeq = 1
    /\ resolved = <<>>
    /\ activeTab = "history"
    /\ showTakeQuiz = FALSE
    /\ orphans = EmptyBag
    /\ lastCall = Call("fetchHistory", "call", "null")

Outcomes == {"rejected", "http", "ok"}

HistoryFetched ==
    \E c \in inflight, outcome \in Outcomes : fetchHistory_fetched(c, outcome)

HistoryParsed ==
    \E c \in inflight, data \in HistoryLists, readable \in BOOLEAN :
        fetchHistory_parsed(c, data, readable)

DetailsClicked ==
    \E id \in QuizIds : nextSeq < MaxCalls /\ handleDetails(id)

DetailsFetched ==
    \E c \in inflight, outcome \in Outcomes, detail \in Details :
        /\ outcome # "http" => detail = "null"
        /\ handleDetails_fetched(c, outcome, detail)

DetailsParsed ==
    \E c \in inflight, readable \in BOOLEAN : handleDetails_parsed(c, readable)

NextPast ==
    \/ HistoryFetched
    \/ HistoryParsed
    \/ DetailsClicked
    \/ DetailsFetched
    \/ DetailsParsed
    \/ onClose

SpecPast == InitPast /\ [][NextPast]_vars

----------------------------------------------------------------------------
(* Properties of PastQuizzes, checked under SpecPast *)

\* The steps of handleDetails that end in its catch block.
DetailFailures == {"rejected", "http", "unreadable"}

\* C6 as claimed: after a handleDetails whose fetch came back non-ok with
\* a detail message in its body, error is that message.
C6_DetailMessageVerbatim ==
    (/\ lastCall.fn = "handleDetails"
     /\ lastCall.step = "http"
     /\ lastCall.detail # "null") => error = lastCall.detail

\* C7: the step in which a handleDetails fails leaves selectedQuiz, the
\* list and the list's loading flag as they were; it sets error and
\* clears modalLoading.
C7_FailureKeepsSelectedQuiz ==
    [][(lastCall'.fn = "handleDetails" /\ lastCall'.step \in DetailFailures)
          => /\ selectedQuiz' = selectedQuiz
             /\ quizzes' = quizzes
             /\ loading' = loading
             /\ error' # "null"
             /\ modalLoading' = FALSE]_vars

\* A handleDetails has failed while a quiz was selected.
C7_Witness ==
    /\ lastCall.fn = "handleDetails"
    /\ lastCall.step \in {"rejected", "http"}
    /\ selectedQuiz # "null"
    /\ error # "null"

\* C8: the selected quiz is the one of the handleDetails call whose body
\* was parsed last, whichever call was issued last.
C8_LastResolvedWins ==
    /\ (resolved # <<>> /\ selectedQuiz # "null")
          => selectedQuiz = QuizById(resolved[Len(resolved)].id)
    /\ (lastCall.fn = "handleDetails" /\ lastCall.step = "parsed")
          => /\ resolved # <<>>
             /\ selectedQuiz = QuizById(resolved[Len(resolved)].id)

\* Two calls for different quizzes, the second one parsed first: the
\* first call's quiz is the selected one.
C8_Witness ==
    /\ Len(resolved) = 2
    /\ resolved[1].seq > resolved[2].seq
    /\ resolved[1].id # resolved[2].id
    /\ inflight = {}
    /\ lastCall.fn = "handleDetails" /\ lastCall.step = "parsed"
    /\ selectedQuiz = QuizById(resolved[2].id)

----------------------------------------------------------------------------
(* Strings of the url input.  A string is a sequence of tokens: a white    *)
(* space character, the text 'wikipedia.org/wiki/', or some other text.    *)

Space == " "
WikiPath == "wikipedia.org/wiki/"
UrlTokens == {Space, WikiPath, "x"}

Urls == UNION { [1..n -> UrlTokens] : n \in 0..MaxUrlLen }

RECURSIVE TrimStart(_)
TrimStart(str) ==
    IF str # <<>> /\ Head(str) = Space THEN TrimStart(Tail(str)) ELSE str

RECURSIVE TrimEnd(_)
TrimEnd(str) ==
    IF str # <<>> /\ str[Len(str)] = Space
    THEN TrimEnd(SubSeq(str, 1, Len(str) - 1))
    ELSE str

\* String.prototype.trim
Trim(str) == TrimEnd(TrimStart(str))

\* str.includes(token)
Includes(str, token) == \E i \in 1..Len(str) : str[i] = token

----------------------------------------------------------------------------
(* The quiz service, as GenerateQuiz sees it *)

\* The bodies of a successful POST /api/quiz/generate.
GeneratedQuizzes == { QuizById(id) : id \in QuizIds }

\* The body of a successful GET /api/quiz/preview/url.
Previews == {"Alan Turing"}

\* A handler suspended at await fetch(...).  What the service answers does
\* not depend on the url it was sent, so the url is not kept.
GenPending(fn) == [fn |-> fn, pc |-> "fetch"]

\* One more suspended handler.
Suspend(bag, c) == bag (+) SetToBag({c})

\* The handler c ran to its end.
Finish(bag, c) == bag (-) SetToBag({c})

\* The handler c moved on to an await res.json().
Advance(bag, c, pc) == Suspend(Finish(bag, c), [c EXCEPT !.pc = pc])

----------------------------------------------------------------------------
(* GenerateQuiz *)

\* onChange of the input.
setUrl(value) ==
    /\ url' = value
    /\ lastCall' = Call("setUrl", "call", "null")
    /\ UNCHANGED <<preview, quizData, genLoading, genError, previewLoading,
                   genInflight, takeVars, pastVars, appVars, netVars>>

\* Mutant: any non-empty trimmed text is looked up.
handleUrlBlur_anyText ==
    /\ IF Trim(url) = <<>>
       THEN /\ preview' = "null"
            /\ UNCHANGED <<previewLoading, genInflight, nextSeq>>
       ELSE /\ previewLoading' = TRUE
            /\ genInflight' = Suspend(genInflight, GenPending("handleUrlBlur"))
            /\ nextSeq' = nextSeq + 1
            /\ UNCHANGED preview
    /\ lastCall' = Call("handleUrlBlur", "call", "null")
    /\ UNCHANGED <<url, quizData, genLoading, genError, takeVars, pastVars, appVars,
                   inflight, resolved>>

\* handleUrlBlur up to await fetch(.../preview/url?url=...).
handleUrlBlur ==
    /\ IF Trim(url) = <<>> \/ ~Includes(Trim(url), WikiPath)
       THEN /\ preview' = "null"
            /\ UNCHANGED <<previewLoading, genInflight, nextSeq>>
       ELSE /\ previewLoading' = TRUE
            /\ genInflight' = Suspend(genInflight, GenPending("handleUrlBlur"))
            /\ nextSeq' = nextSeq + 1
            /\ UNCHANGED preview
    /\ lastCall' = Call("handleUrlBlur", "call", "null")
    /\ UNCHANGED <<url, quizData, genLoading, genError, takeVars, pastVars, appVars,
                   inflight, resolved>>

\* Mutant: a failed preview is reported in the error state.
handleUrlBlur_fetched_reports(c, outcome) ==
    /\ c.fn = "handleUrlBlur" /\ c.pc = "fetch"
    /\ CASE outcome = "rejected" ->
              /\ preview' = "null"
              /\ genError' = NetworkErrorMessage
              /\ previewLoading' = FALSE
              /\ genInflight' = Finish(genInflight, c)
         [] outcome = "http" ->
              /\ preview' = "null"
              /\ genError' = "Failed to fetch preview"
              /\ previewLoading' = FALSE
              /\ genInflight' = Finish(genInflight, c)
         [] outcome = "ok" ->
              /\ genInflight' = Advance(genInflight, c, "json")
              /\ UNCHANGED <<preview, previewLoading, genError>>
    /\ lastCall' = Call("handleUrlBlur", outcome, "null")
    /\ UNCHANGED <<url, quizData, genLoading, takeVars, pastVars, appVars,
                   netVars>>

\* handleUrlBlur, once the fetch has settled.
handleUrlBlur_fetched(c, outcome) ==
    /\ c.fn = "handleUrlBlur" /\ c.pc = "fetch"
    /\ CASE outcome = "rejected" ->
              /\ preview' = "null"
              /\ previewLoading' = FALSE
              /\ genInflight' = Finish(genInflight, c)
         [] outcome = "http" ->
              /\ preview' = "null"
              /\ previewLoading' = FALSE
              /\ genInflight' = Finish(genInflight, c)
         [] outcome = "ok" ->
              /\ genInflight' = Advance(genInflight, c, "json")
              /\ UNCHANGED <<preview, previewLoading>>
    /\ lastCall' = Call("handleUrlBlur", outcome, "null")
    /\ UNCHANGED <<url, quizData, genLoading, genError, takeVars, pastVars, appVars,
                   netVars>>

\* Mutant: the end of a preview clears the loading flag of generate too.
handleUrlBlur_parsed_clearsLoading(c, data, readable) ==
    /\ c.fn = "handleUrlBlur" /\ c.pc = "json"
    /\ preview' = IF readable THEN data ELSE "null"
    /\ previewLoading' = FALSE
    /\ genLoading' = FALSE
    /\ genInflight' = Finish(genInflight, c)
    /\ lastCall' = Call("handleUrlBlur",
                        IF readable THEN "parsed" ELSE "unreadable", "null")
    /\ UNCHANGED <<url, quizData, genError, takeVars, pastVars, appVars,
                   netVars>>

\* handleUrlBlur, once res.json() has settled: with the preview, or rejected.
handleUrlBlur_parsed(c, data, readable) ==
    /\ c.fn = "handleUrlBlur" /\ c.pc = "json"
    /\ preview' = IF readable THEN data ELSE "null"
    /\ previewLoading' = FALSE
    /\ genInflight' = Finish(genInflight, c)
    /\ lastCall' = Call("handleUrlBlur",
                        IF readable THEN "parsed" ELSE "unreadable", "null")
    /\ UNCHANGED <<url, quizData, genLoading, genError, takeVars, pastVars, appVars,
                   netVars>>

\* Mutant: the error of the attempt before is not cleared.
handleGenerate_keepsError ==
    /\ IF Trim(url) = <<>>
       THEN UNCHANGED <<genLoading, quizData, genInflight, nextSeq,
                        takeVars, showTakeQuiz>>
       ELSE /\ genLoading' = TRUE
            /\ quizData' = "null"
            /\ QuizDisplayUnmounted
            /\ genInflight' = Suspend(genInflight, GenPending("handleGenerate"))
            /\ nextSeq' = nextSeq + 1
    /\ lastCall' = Call("handleGenerate", "call", "null")
    /\ UNCHANGED <<url, preview, previewLoading, genError, pastVars, activeTab,
                   orphans, inflight, resolved>>

\* Mutant: the url is tested as typed, not trimmed.
handleGenerate_untrimmed ==
    /\ IF url = <<>>
       THEN UNCHANGED <<genLoading, genError, quizData, genInflight, nextSeq,
                        takeVars, showTakeQuiz>>
       ELSE /\ genLoading' = TRUE
            /\ genError' = "null"
            /\ quizData' = "null"
            /\ QuizDisplayUnmounted
            /\ genInflight' = Suspend(genInflight, GenPending("handleGenerate"))
            /\ nextSeq' = nextSeq + 1
    /\ lastCall' = Call("handleGenerate", "call", "null")
    /\ UNCHANGED <<url, preview, previewLoading, pastVars, activeTab, orphans,
                   inflight, resolved>>

\* handleGenerate up to await fetch(.../generate, POST {url: trimmed}).
\* While loading is set no QuizDisplay is rendered.
handleGenerate ==
    /\ IF Trim(url) = <<>>
       THEN UNCHANGED <<genLoading, genError, quizData, genInflight, nextSeq,
                        takeVars, showTakeQuiz>>
       ELSE /\ genLoading' = TRUE
            /\ genError' = "null"
            /\ quizData' = "null"
            /\ QuizDisplayUnmounted
            /\ genInflight' = Suspend(genInflight, GenPending("handleGenerate"))
            /\ nextSeq' = nextSeq + 1
    /\ lastCall' = Call("handleGenerate", "call", "null")
    /\ UNCHANGED <<url, preview, previewLoading, pastVars, activeTab, orphans,
                   inflight, resolved>>

\* Mutant: the catch block writes the error state of PastQuizzes.
handleGenerate_fetched_shared(c, outcome) ==
    /\ c.fn = "handleGenerate" /\ c.pc = "fetch"
    /\ CASE outcome = "rejected" ->
              /\ error' = NetworkErrorMessage
              /\ genLoading' = FALSE
              /\ genInflight' = Finish(genInflight, c)
              /\ UNCHANGED genError
         [] outcome = "http" ->
              /\ genInflight' = Advance(genInflight, c, "errjson")
              /\ UNCHANGED <<genError, genLoading, error>>
         [] outcome = "ok" ->
              /\ genInflight' = Advance(genInflight, c, "json")
              /\ UNCHANGED <<genError, genLoading, error>>
    /\ lastCall' = Call("handleGenerate", outcome, "null")
    /\ UNCHANGED <<url, preview, quizData, previewLoading, takeVars, appVars,
                   quizzes, loading, selectedQuiz, modalLoading, netVars>>

\* handleGenerate, once the fetch has settled: a rejected fetch goes to the
\* catch block; a fulfilled one awaits res.json(), of the failure body
\* when the status is not ok.
handleGenerate_fetched(c, outcome) ==
    /\ c.fn = "handleGenerate" /\ c.pc = "fetch"
    /\ CASE outcome = "rejected" ->
              /\ genError' = NetworkErrorMessage
              /\ genLoading' = FALSE
              /\ genInflight' = Finish(genInflight, c)
         [] outcome = "http" ->
              /\ genInflight' = Advance(genInflight, c, "errjson")
              /\ UNCHANGED <<genError, genLoading>>
         [] outcome = "ok" ->
              /\ genInflight' = Advance(genInflight, c, "json")
              /\ UNCHANGED <<genError, genLoading>>
    /\ lastCall' = Call("handleGenerate", outcome, "null")
    /\ UNCHANGED <<url, preview, quizData, previewLoading, takeVars, pastVars, appVars,
                   netVars>>

\* handleGenerate, once the res.json() of a failure body has settled: with
\* a body whose detail is the given one ("null": none), or rejected.
handleGenerate_failed(c, detail, readable) ==
    /\ c.fn = "handleGenerate" /\ c.pc = "errjson"
    /\ genError' = IF ~readable THEN JsonErrorMessage
                   ELSE IF detail # "null" THEN detail
                   ELSE "Failed to generate quiz"
    /\ genLoading' = FALSE
    /\ genInflight' = Finish(genInflight, c)
    /\ lastCall' = Call("handleGenerate",
                        IF readable THEN "failed" ELSE "unreadable", detail)
    /\ UNCHANGED <<url, preview, quizData, previewLoading, takeVars, pastVars, appVars,
                   netVars>>

\* handleGenerate, once the res.json() of the quiz has settled.
handleGenerate_parsed(c, data, readable) ==
    /\ c.fn = "handleGenerate" /\ c.pc = "json"
    /\ IF readable
       THEN /\ quizData' = data
            /\ QuizDisplayRerendered(QuizQuestions(data))
            /\ UNCHANGED genError
       ELSE /\ genError' = JsonErrorMessage
            /\ UNCHANGED <<quizData, takeVars, showTakeQuiz>>
    /\ genLoading' = FALSE
    /\ genInflight' = Finish(genInflight, c)
    /\ lastCall' = Call("handleGenerate",
                        IF readable THEN "parsed" ELSE "unreadable", "null")
    /\ UNCHANGED <<url, preview, previewLoading, pastVars, activeTab, orphans,
                   netVars>>

\* onKeyDown of the input.
handleKeyDown(key) ==
    IF key = "Enter" /\ ~genLoading
    THEN handleGenerate
    ELSE /\ lastCall' = Call("handleKeyDown", "call", "null")
         /\ UNCHANGED <<genVars, takeVars, pastVars, appVars, netVars>>

\* GenerateQuiz just mounted.
InitGen ==
    /\ TakeAbsent
    /\ PastAbsent
    /\ GenAbsent
    /\ NetIdle
    /\ activeTab = "generate"
    /\ showTakeQuiz = FALSE
    /\ orphans = EmptyBag
    /\ lastCall = Call("GenerateQuiz", "mount", "null")

Keys == {"Enter", "x"}

UrlChanged == \E value \in Urls : setUrl(value)

UrlBlurred == nextSeq < MaxCalls /\ handleUrlBlur

PreviewFetched ==
    \E c \in BagToSet(genInflight), outcome \in Outcomes : handleUrlBlur_fetched(c, outcome)

PreviewParsed ==
    \E c \in BagToSet(genInflight), data \in Previews, readable \in BOOLEAN :
        handleUrlBlur_parsed(c, data, readable)

GenerateClicked == nextSeq < MaxCalls /\ handleGenerate

KeyPressed == \E key \in Keys : nextSeq < MaxCalls /\ handleKeyDown(key)

GenerateFetched ==
    \E c \in BagToSet(genInflight), outcome \in Outcomes : handleGenerate_fetched(c, outcome)

GenerateFailed ==
    \E c \in BagToSet(genInflight), detail \in Details, readable \in BOOLEAN :
        /\ ~readable => detail = "null"
        /\ handleGenerate_failed(c, detail, readable)

GenerateParsed ==
    \E c \in BagToSet(genInflight), data \in GeneratedQuizzes, readable \in BOOLEAN :
        handleGenerate_parsed(c, data, readable)

NextGen ==
    \/ UrlChanged
    \/ UrlBlurred
    \/ PreviewFetched
    \/ PreviewParsed
    \/ GenerateClicked
    \/ KeyPressed
    \/ GenerateFetched
    \/ GenerateFailed
    \/ GenerateParsed

SpecGen == InitGen /\ [][NextGen]_vars

----------------------------------------------------------------------------
(* Properties of GenerateQuiz, checked under SpecGen *)

\* C9: a handleGenerate called while the url is empty or all white space
\* issues no request and leaves loading, error, result, preview and the
\* rest of the component's state as they were.
C9_EmptyUrlGeneratesNothing ==
    [][(/\ lastCall'.fn = "handleGenerate"
        /\ lastCall'.step = "call"
        /\ \A i \in 1..Len(url) : url[i] = Space)
          => UNCHANGED <<genLoading, genError, quizData, preview,
                         previewLoading, url, genInflight, nextSeq>>]_vars

\* handleGenerate has been called on a white-space url, after an earlier
\* attempt left an error, and nothing is in flight.
C9_Witness ==
    /\ lastCall.fn = "handleGenerate"
    /\ lastCall.step = "call"
    /\ url # <<>>
    /\ \A i \in 1..Len(url) : url[i] = Space
    /\ genError # "null"
    /\ ~genLoading
    /\ genInflight = EmptyBag

\* C10: a handleUrlBlur called while the url, trimmed, does not contain
\* the wiki path issues no request, leaves previewLoading as it was and
\* leaves preview null.
C10_NoWikiPathNoRequest ==
    [][(/\ lastCall'.fn = "handleUrlBlur"
        /\ lastCall'.step = "call"
        /\ \A i \in 1..Len(url) : url[i] # WikiPath)
          => /\ preview' = "null"
             /\ UNCHANGED <<previewLoading, genInflight, nextSeq>>]_vars

\* handleUrlBlur has been called on a url with text but no wiki path;
\* no request was ever issued.
C10_Witness ==
    /\ lastCall.fn = "handleUrlBlur"
    /\ lastCall.step = "call"
    /\ Trim(url) # <<>>
    /\ \A i \in 1..Len(url) : url[i] # WikiPath
    /\ preview = "null"
    /\ ~previewLoading
    /\ nextSeq = 0

\* The steps of handleUrlBlur that end without a preview.
PreviewFailures == {"rejected", "http", "unreadable"}

\* C11: no step of handleUrlBlur writes the component's error, loading or
\* quiz result, and a preview that fails (rejected fetch, non-ok status,
\* unreadable body) leaves preview null.
C11_PreviewNeverWritesError ==
    [][lastCall'.fn = "handleUrlBlur"
          => /\ UNCHANGED <<genError, genLoading, quizData>>
             /\ lastCall'.step \in PreviewFailures => preview' = "null"]_vars

\* A preview has failed while an error of an earlier generate is shown.
C11_Witness ==
    /\ lastCall.fn = "handleUrlBlur"
    /\ lastCall.step \in {"rejected", "http"}
    /\ preview = "null"
    /\ genError # "null"

\* The steps of handleGenerate that end in its catch block.
GenerateFailures == {"rejected", "failed", "unreadable"}

\* C13 as claimed: after a failed handleGenerate, error is the detail
\* message of the failure body when it has one and 'Failed to generate
\* quiz' otherwise, a rejected fetch and an unreadable body included.
C13_DetailOrFallback ==
    (lastCall.fn = "handleGenerate" /\ lastCall.step \in GenerateFailures)
        => genError = IF lastCall.detail # "null" THEN lastCall.detail
                      ELSE "Failed to generate quiz"

----------------------------------------------------------------------------
(* App: the two tabs, of which one component is rendered at a time, the    *)
(* QuizDisplay the rendered component shows, and the elements the user can *)
(* act on in what is rendered.                                             *)

Tabs == {"generate", "history"}

\* The handlers a component leaves suspended when it is unmounted, without
\* the request number and quiz id that nothing reads any more.
Unmounted(calls) ==
    LET strip(c) == [fn |-> c.fn, pc |-> c.pc]
        keys == { strip(c) : c \in calls }
    IN  [k \in keys |-> Cardinality({ c \in calls : strip(c) = k })]

\* Mutant: PastQuizzes mounts without its effect, no fetchHistory is called.
setActiveTab_noEffect(tab) ==
    /\ activeTab' = tab
    /\ lastCall' = Call("setActiveTab", "call", "null")
    /\ IF tab = activeTab
       THEN UNCHANGED <<takeVars, pastVars, netVars, genVars, showTakeQuiz,
                        orphans>>
       ELSE /\ QuizDisplayUnmounted
            /\ orphans' = orphans (+) genInflight (+) Unmounted(inflight)
            /\ url' = <<>>
            /\ preview' = "null"
            /\ quizData' = "null"
            /\ genLoading' = FALSE
            /\ genError' = "null"
            /\ previewLoading' = FALSE
            /\ genInflight' = EmptyBag
            /\ quizzes' = <<>>
            /\ error' = "null"
            /\ selectedQuiz' = "null"
            /\ modalLoading' = FALSE
            /\ resolved' = <<>>
            /\ loading' = (tab = "history")
            /\ inflight' = {}
            /\ UNCHANGED nextSeq

\* onClick of a tab button.  On a change of tab the rendered component is
\* unmounted, its state is gone and its suspended handlers go on without
\* it; the other component mounts with its initial state, and PastQuizzes
\* runs its effect: fetchHistory up to await fetch(`${API_BASE}/history`).
setActiveTab(tab) ==
    /\ activeTab' = tab
    /\ lastCall' = Call("setActiveTab", "call", "null")
    /\ IF tab = activeTab
       THEN UNCHANGED <<takeVars, pastVars, netVars, genVars, showTakeQuiz,
                        orphans>>
       ELSE /\ QuizDisplayUnmounted
            /\ orphans' = orphans (+) genInflight (+) Unmounted(inflight)
            /\ url' = <<>>
            /\ preview' = "null"
            /\ quizData' = "null"
            /\ genLoading' = FALSE
            /\ genError' = "null"
            /\ previewLoading' = FALSE
            /\ genInflight' = EmptyBag
            /\ quizzes' = <<>>
            /\ error' = "null"
            /\ selectedQuiz' = "null"
            /\ modalLoading' = FALSE
            /\ resolved' = <<>>
            /\ IF tab = "history"
               THEN /\ loading' = TRUE
                    /\ inflight' = {Pending("fetchHistory", 0)}
                    /\ nextSeq' = nextSeq + 1
               ELSE /\ loading' = FALSE
                    /\ inflight' = {}
                    /\ UNCHANGED nextSeq

\* What lastCall holds after a step of a handler whose component has been
\* unmounted.
UnmountedCall(fn, step) ==
    [fn |-> fn, step |-> step, detail |-> "null", from |-> "unmounted"]

\* A handler of an unmounted component, once its fetch has settled.  It
\* runs as it would have, and its setState calls change nothing.
unmounted_fetched(c, outcome) ==
    /\ c.pc = "fetch"
    /\ orphans' =
          IF outcome = "ok" THEN Advance(orphans, c, "json")
          ELSE IF outcome = "http" /\ c.fn = "handleGenerate"
               THEN Advance(orphans, c, "errjson")
          ELSE Finish(orphans, c)
    /\ lastCall' = UnmountedCall(c.fn, outcome)
    /\ UNCHANGED <<takeVars, pastVars, netVars, genVars, activeTab,
                   showTakeQuiz>>

\* Mutant: the quiz a handleGenerate of an unmounted GenerateQuiz has
\* parsed is set in the GenerateQuiz that is rendered now.
unmounted_parsed_applies(c, readable) ==
    /\ c.pc \in {"json", "errjson"}
    /\ orphans' = Finish(orphans, c)
    /\ IF c.fn = "handleGenerate" /\ c.pc = "json" /\ readable
          /\ activeTab = "generate"
       THEN quizData' = QuizById(1)
       ELSE UNCHANGED quizData
    /\ lastCall' = UnmountedCall(c.fn,
                                 IF ~readable THEN "unreadable"
                                 ELSE IF c.pc = "json" THEN "parsed"
                                 ELSE "failed")
    /\ UNCHANGED <<takeVars, pastVars, netVars, url, preview, genLoading,
                   genError, previewLoading, genInflight, activeTab,
                   showTakeQuiz>>

\* A handler of an unmounted component, once its res.json() has settled.
unmounted_parsed(c, readable) ==
    /\ c.pc \in {"json", "errjson"}
    /\ orphans' = Finish(orphans, c)
    /\ lastCall' = UnmountedCall(c.fn,
                                 IF ~readable THEN "unreadable"
                                 ELSE IF c.pc = "json" THEN "parsed"
                                 ELSE "failed")
    /\ UNCHANGED <<takeVars, pastVars, netVars, genVars, activeTab,
                   showTakeQuiz>>

\* The data prop of the rendered QuizDisplay; "null" when none is rendered.
displayed ==
    IF activeTab = "generate"
    THEN IF genLoading THEN "null" ELSE quizData
    ELSE selectedQuiz

\* setShowTakeQuiz of the rendered QuizDisplay: with true a TakeQuiz mounts
\* on data.quiz, with false (onBack) it is unmounted.
setShowTakeQuiz(show) ==
    /\ showTakeQuiz' = show
    /\ IF show
       THEN /\ questions' = QuizQuestions(displayed)
            /\ answers' = EmptyAnswers
            /\ submitted' = FALSE
            /\ score' = 0
       ELSE /\ questions' = <<>>
            /\ answers' = EmptyAnswers
            /\ submitted' = FALSE
            /\ score' = 0
    /\ lastCall' = Call("setShowTakeQuiz", "call", "null")
    /\ UNCHANGED <<pastVars, netVars, genVars, activeTab, orphans>>

\* App just mounted: the generate tab, GenerateQuiz rendered.
Init == InitGen

TabClicked ==
    \E tab \in Tabs :
        /\ (tab = "history" /\ activeTab # "history") => nextSeq < MaxCalls
        /\ setActiveTab(tab)

\* The texts typed into the input: nothing, white space, a text without
\* 'wikipedia.org/wiki/' and one with it.
TypedUrls == { <<>>, <<Space>>, <<"x">>, <<WikiPath>> }

\* The input is disabled while loading.
InputChanged ==
    /\ activeTab = "generate" /\ ~genLoading
    /\ \E value \in TypedUrls : setUrl(value)

InputBlurred ==
    /\ activeTab = "generate" /\ ~genLoading
    /\ nextSeq < MaxCalls
    /\ handleUrlBlur

InputKeyDown ==
    /\ activeTab = "generate" /\ ~genLoading
    /\ nextSeq < MaxCalls
    /\ \E key \in Keys : handleKeyDown(key)

\* The button is disabled while loading or while the trimmed url is empty.
GenerateButtonClicked ==
    /\ activeTab = "generate" /\ ~(genLoading \/ Trim(url) = <<>>)
    /\ nextSeq < MaxCalls
    /\ handleGenerate

\* Mutant: the Details buttons are never disabled.
DetailsButtonClicked_alwaysEnabled ==
    /\ activeTab = "history" /\ ~loading
    /\ nextSeq < MaxCalls
    /\ \E i \in 1..Len(quizzes) : handleDetails(quizzes[i])

\* The table is rendered once loading is over and quizzes is not empty; a
\* row's Details button is disabled while modalLoading, and only then.
DetailsButtonClicked ==
    /\ activeTab = "history" /\ ~loading /\ ~modalLoading
    /\ nextSeq < MaxCalls
    /\ \E i \in 1..Len(quizzes) : handleDetails(quizzes[i])

TakeQuizClicked ==
    /\ displayed # "null" /\ ~showTakeQuiz
    /\ setShowTakeQuiz(TRUE)

BackClicked ==
    /\ showTakeQuiz
    /\ setShowTakeQuiz(FALSE)

\* The option buttons are disabled once submitted.
OptionClicked ==
    /\ showTakeQuiz /\ ~submitted
    /\ \E qIndex \in 0..(Len(questions) - 1) :
          \E k \in 1..Len(questions[qIndex + 1].options) :
              handleSelect(qIndex, questions[qIndex + 1].options[k])

\* The submit button is rendered until submitted, and is disabled while
\* answeredCount < totalQuestions.
SubmitClicked ==
    /\ showTakeQuiz /\ ~submitted /\ ~(answeredCount < totalQuestions)
    /\ handleSubmit

\* The retry button is rendered once submitted.
RetryClicked ==
    /\ showTakeQuiz /\ submitted
    /\ handleRetry

UnmountedFetched ==
    \E c \in BagToSet(orphans), outcome \in Outcomes :
        unmounted_fetched(c, outcome)

UnmountedParsed ==
    \E c \in BagToSet(orphans), readable \in BOOLEAN :
        unmounted_parsed(c, readable)

\* The responses of the network.
Responses ==
    \/ HistoryFetched
    \/ HistoryParsed
    \/ DetailsFetched
    \/ DetailsParsed
    \/ PreviewFetched
    \/ PreviewParsed
    \/ GenerateFetched
    \/ GenerateFailed
    \/ GenerateParsed
    \/ UnmountedFetched
    \/ UnmountedParsed

Next ==
    \/ TabClicked
    \/ InputChanged
    \/ InputBlurred
    \/ InputKeyDown
    \/ GenerateButtonClicked
    \/ DetailsButtonClicked
    \/ onClose
    \/ TakeQuizClicked
    \/ BackClicked
    \/ OptionClicked
    \/ SubmitClicked
    \/ RetryClicked
    \/ Responses

Spec == Init /\ [][Next]_vars

\* Every response the network owes arrives.
FairSpec ==
    /\ Spec
    /\ WF_vars(HistoryFetched)
    /\ WF_vars(HistoryParsed)
    /\ WF_vars(DetailsFetched)
    /\ WF_vars(DetailsParsed)
    /\ WF_vars(PreviewFetched)
    /\ WF_vars(PreviewParsed)
    /\ WF_vars(GenerateFetched)
    /\ WF_vars(GenerateFailed)
    /\ WF_vars(GenerateParsed)

----------------------------------------------------------------------------
(* Properties of the application, checked under Spec and FairSpec *)

\* The steps a handler ends with, successfully or not.
LastSteps(fn) ==
    IF fn = "handleGenerate"
    THEN {"rejected", "failed", "parsed", "unreadable"}
    ELSE {"rejected", "http", "parsed", "unreadable"}

\* The handler fn of the rendered component has just run to its end.
Completed(fn) ==
    /\ lastCall.fn = fn
    /\ lastCall.from # "unmounted"
    /\ lastCall.step \in LastSteps(fn)

\* C12: when fetchHistory, handleDetails, handleGenerate or handleUrlBlur
\* has run to its end, by success or by failure, its loading flag is false;
\* and, every response arriving, a loading flag that is set is cleared
\* later: each flag is false again and again.
C12_LoadingCleared ==
    /\ [](/\ Completed("fetchHistory") => ~loading
          /\ Completed("handleDetails") => ~modalLoading
          /\ Completed("handleGenerate") => ~genLoading
          /\ Completed("handleUrlBlur") => ~previewLoading)
    /\ []<>~loading
    /\ []<>~modalLoading
    /\ []<>~genLoading
    /\ []<>~previewLoading

\* fetchHistory has ended in its catch block, and loading is cleared.
C12_Witness ==
    /\ Completed("fetchHistory")
    /\ lastCall.step = "unreadable"
    /\ error = JsonErrorMessage
    /\ ~loading

\* C14 as claimed: the message of a failed handleDetails is in the one
\* error slot that fetchHistory and handleGenerate write as well.
C14_OneErrorSlot ==
    (lastCall.fn = "handleDetails" /\ lastCall.from # "unmounted"
        /\ lastCall.step \in DetailFailures)
        => error # "null" /\ genError = error

\* C14, amended: a failed handleDetails and a failed fetchHistory write the
\* error of PastQuizzes and leave the error of GenerateQuiz as it is; a
\* failed handleGenerate writes the error of GenerateQuiz and leaves the
\* error of PastQuizzes as it is.
C14_ErrorSlotPerComponent ==
    [][/\ (lastCall'.from # "unmounted"
             /\ \/ lastCall'.fn = "handleDetails"
                     /\ lastCall'.step \in DetailFailures
                \/ lastCall'.fn = "fetchHistory"
                     /\ lastCall'.step \in DetailFailures)
          => error' # "null" /\ UNCHANGED genError
       /\ (lastCall'.from # "unmounted"
             /\ lastCall'.fn = "handleGenerate"
             /\ lastCall'.step \in GenerateFailures)
          => genError' # "null" /\ UNCHANGED error]_vars

\* A handleDetails has failed while a quiz is shown.
C14_Witness ==
    /\ lastCall.fn = "handleDetails"
    /\ lastCall.from # "unmounted"
    /\ lastCall.step \in DetailFailures
    /\ error # "null"
    /\ genError = "null"
    /\ selectedQuiz # "null"

\* C15 as claimed: a fetchHistory started while a handleGenerate is
\* suspended does not keep the generated quiz from becoming quizData: once
\* handleGenerate has parsed the quiz, quizData is set.
C15_GenerateUnaffectedByHistory ==
    (lastCall.fn = "handleGenerate" /\ lastCall.step = "parsed")
        => quizData # "null"

\* C16 as claimed: a TakeQuiz is shown with no answers, score 0 and not
\* submitted, and while it is shown and holds answers its question list
\* stays the same.
C16_FreshTakeQuiz ==
    [][/\ (~showTakeQuiz /\ showTakeQuiz')
          => answers' = EmptyAnswers /\ score' = 0 /\ ~submitted'
       /\ (showTakeQuiz /\ showTakeQuiz' /\ answers # EmptyAnswers)
          => questions' = questions]_vars

\* C17: a step that changes the tab to history starts exactly one
\* fetchHistory, and no other step starts one.
C17_OneHistoryFetchPerEntry ==
    [][LET started == { c \in inflight' \ inflight :
                          c.fn = "fetchHistory" /\ c.pc = "fetch" }
       IN  IF activeTab # "history" /\ activeTab' = "history"
           THEN Cardinality(started) = 1 /\ nextSeq' = nextSeq + 1
           ELSE started = {}]_vars

\* The history tab has been entered for the second time at least.
C17_Witness ==
    /\ lastCall.fn = "setActiveTab"
    /\ activeTab = "history"
    /\ loading
    /\ nextSeq >= 2
    /\ \E c \in inflight :
          /\ inflight = {c}
          /\ c.fn = "fetchHistory" /\ c.seq = nextSeq - 1

\* The suspended calls of fn, of rendered and of unmounted components.
InFlight(fn) ==
    LET copies(bag) ==
            CopiesIn([fn |-> fn, pc |-> "fetch"], bag)
            + CopiesIn([fn |-> fn, pc |-> "json"], bag)
            + CopiesIn([fn |-> fn, pc |-> "errjson"], bag)
    IN  Cardinality({ c \in inflight : c.fn = fn })
        + copies(genInflight) + copies(orphans)

\* C18 as claimed: at most one call of each of fetchHistory, handleDetails,
\* handleGenerate and handleUrlBlur is suspended at any moment.
C18_OneInFlightPerKind ==
    \A fn \in {"fetchHistory", "handleDetails", "handleGenerate",
               "handleUrlBlur"} : InFlight(fn) <= 1

\* C19: in GenerateQuiz, while loading is set error and quizData are null,
\* and while it is not set they are not both non-null.
C19_LoadingErrorResultExclusive ==
    /\ genLoading => genError = "null" /\ quizData = "null"
    /\ ~genLoading => ~(genError # "null" /\ quizData # "null")

\* A handleGenerate is suspended, started with the Generate button or the
\* Enter key.
C19_Witness ==
    /\ genLoading
    /\ lastCall.fn = "handleGenerate"
    /\ lastCall.step = "call"
    /\ CopiesIn(GenPending("handleGenerate"), genInflight) = 1

\* C21 as claimed: the keys of answers are indices of questions, so
\* answeredCount is at most totalQuestions; and a handleSelect on a quiz
\* that is not submitted either replaces the value of one key, the keys
\* staying the same, or adds one key and changes no value of another.
C21_AnswerKeysAreQuestionIndices ==
    [][/\ DOMAIN answers' \subseteq 0..(Len(questions') - 1)
       /\ Cardinality(DOMAIN answers') <= Len(questions')
       /\ (lastCall'.fn = "handleSelect" /\ ~submitted)
          => LET added == DOMAIN answers' \ DOMAIN answers
                 changed == { i \in DOMAIN answers : answers'[i] # answers[i] }
             IN  /\ DOMAIN answers \subseteq DOMAIN answers'
                 /\ Cardinality(added) <= 1
                 /\ Cardinality(changed) <= 1
                 /\ added # {} => changed = {}]_vars

\* C22: no step of a handleDetails that succeeds changes error, so the
\* quiz it selects is shown with the error that was set before; and an
\* error that is set stays set for as long as the tab is not changed.
C22_DetailsKeepsError ==
    [][/\ (lastCall'.fn = "handleDetails" /\ lastCall'.from # "unmounted"
             /\ lastCall'.step \in {"call", "ok", "parsed"})
          => UNCHANGED error
       /\ (lastCall'.fn = "handleDetails" /\ lastCall'.from # "unmounted"
             /\ lastCall'.step = "parsed")
          => selectedQuiz' # "null"
       /\ (error # "null" /\ activeTab' = activeTab)
          => error' # "null"]_vars

\* A handleDetails has succeeded after one that failed: the quiz is
\* selected and the message of the failure is still set.
C22_Witness ==
    /\ lastCall.fn = "handleDetails"
    /\ lastCall.from # "unmounted"
    /\ lastCall.step = "parsed"
    /\ selectedQuiz # "null"
    /\ error \in {NetworkErrorMessage, "Failed to fetch quiz details",
                  JsonErrorMessage}

\* The handleDetails calls of the rendered PastQuizzes that are suspended.
DetailsPending(calls) == { c \in calls : c.fn = "handleDetails" }

\* C23: while modalLoading is set no handleDetails is started, for any
\* row, and there is exactly one handleDetails suspended.
C23_NoDetailsWhileModalLoading ==
    [][/\ modalLoading
          => DetailsPending(inflight') \subseteq
                 DetailsPending(inflight) \cup
                 { Parsing(c) : c \in DetailsPending(inflight) }
       /\ modalLoading' => Cardinality(DetailsPending(inflight')) = 1]_vars

\* A handleDetails is suspended while a list of two rows and the quiz of
\* an earlier handleDetails are shown.
C23_Witness ==
    /\ activeTab = "history"
    /\ modalLoading
    /\ Len(quizzes) = 2
    /\ selectedQuiz # "null"
    /\ Cardinality(DetailsPending(inflight)) = 1

\* C24 as claimed: handleSubmit is reached through the submit button only
\* when answeredCount >= totalQuestions, so in every submitted state each
\* question index has an entry in answers; and handleSubmit scores the map
\* it is given, an index without an entry counting as incorrect.
C24_SubmittedMeansAllAnswered ==
    [][/\ lastCall'.fn = "handleSubmit"
          => /\ ~(answeredCount < totalQuestions)
             /\ score' = Cardinality(CorrectIndices')
       /\ submitted'
          => \A i \in 0..(Len(questions') - 1) : i \in DOMAIN answers']_vars

\* The handleGenerate calls of the rendered GenerateQuiz that are suspended.
GeneratePending(bag) ==
    CopiesIn([fn |-> "handleGenerate", pc |-> "fetch"], bag)
    + CopiesIn([fn |-> "handleGenerate", pc |-> "json"], bag)
    + CopiesIn([fn |-> "handleGenerate", pc |-> "errjson"], bag)

\* C26: as long as the tab is not changed, a loading flag that is set is
\* cleared only by the step that ends a call of its own handler; and while
\* the flag of handleGenerate or of handleDetails is set, no further call
\* of that handler is started.
C26_LoadingClearedOnlyByOwnHandler ==
    [][activeTab' = activeTab
          => /\ (loading /\ ~loading') => Completed("fetchHistory")'
             /\ (modalLoading /\ ~modalLoading') => Completed("handleDetails")'
             /\ (genLoading /\ ~genLoading') => Completed("handleGenerate")'
             /\ (previewLoading /\ ~previewLoading')
                    => Completed("handleUrlBlur")'
             /\ genLoading
                    => GeneratePending(genInflight') <= GeneratePending(genInflight)
             /\ modalLoading
                    => Cardinality(DetailsPending(inflight'))
                          <= Cardinality(DetailsPending(inflight))]_vars

\* A preview has ended while a handleGenerate is suspended, and loading is
\* still set.
C26_Witness ==
    /\ Completed("handleUrlBlur")
    /\ genLoading
    /\ GeneratePending(genInflight) = 1

\* C27 as claimed: score is between 0 and totalQuestions; it is 0 while
\* the quiz is not submitted; and while it is submitted score is the
\* number of indices whose entry in answers is the question's answer.
C27_ScoreMatchesAnswers ==
    /\ 0 <= score /\ score <= totalQuestions
    /\ ~submitted => score = 0
    /\ submitted => score = Cardinality(CorrectIndices)

\* C28: a change of tab from history to generate leaves GenerateQuiz in
\* its initial state, with no quiz shown; and no step of a handler of an
\* unmounted component changes the state of the GenerateQuiz rendered.
C28_GenerateViewStartsAfresh ==
    [][/\ (activeTab = "history" /\ activeTab' = "generate")
          => GenAbsent' /\ ~showTakeQuiz' /\ displayed' = "null"
       /\ lastCall'.from = "unmounted"
          => UNCHANGED <<url, preview, quizData, genLoading, genError,
                         previewLoading, showTakeQuiz>>]_vars

\* Back on the generate tab, the handleGenerate that was suspended when the
\* tab was left has parsed its quiz, and no quiz is shown.
C28_Witness ==
    /\ activeTab = "generate"
    /\ lastCall = UnmountedCall("handleGenerate", "parsed")
    /\ quizData = "null"
    /\ displayed = "null"

====
